---- MODULE Spec2Model ----
(***************************************************************************)
(* The crew-control orchestration service (crew-control/src/app.py): the   *)
(* three workflow handlers execute_query_workflow, execute_ingest_workflow *)
(* and execute_batch_ingest_workflow, run by several request threads.      *)
(*                                                                         *)
(* A handler runs synchronously except where it waits for an agent: an     *)
(* action is the handler's code from one such wait (or from the arrival of *)
(* the request) to the next wait or to the return of the response.         *)
(*                                                                         *)
(* The module `workflows` (QueryWorkflow, IngestionWorkflow,               *)
(* WorkflowContext) is imported by app.py and is not among the sources; it *)
(* is modelled from the design document (sections 3 and 4).                *)
(*                                                                         *)
(* Encoding of Python values: None is the string "None"; a dict is a       *)
(* record; a str that stands where a dict may stand (the 'error' of a      *)
(* batch item) is the record [str |-> s], so that its shape can be told    *)
(* from that of a dict with 'code' and 'message'.                          *)
(***************************************************************************)
EXTENDS Integers, Sequences, FiniteSets, TLC

\* ------------------------------------------------------------------ bounds
\* Request threads of the sequential specification and of the concurrent one.
NumInv == 2
\* Longest 'documents' list of a batch request (sequential specification).
MaxDocs == 2
\* Longest 'documents' list of a batch request (concurrent specification).
MaxConcDocs == 1

Invs == 1..NumInv

\* ------------------------------------------------------------ Python values
None == "None"

\* bool(v) for the scalars of a request: None and '' are falsy.
Truthy(v) == v \notin {None, ""}

\* d.get(k, default)
Get(d, k, default) == IF k \in DOMAIN d THEN d[k] ELSE default

\* {**a, **b}: the keys of both, b's value where both have the key.
Merge(a, b) ==
    [k \in (DOMAIN a) \cup (DOMAIN b) |-> IF k \in DOMAIN b THEN b[k] ELSE a[k]]

PyStr(s) == [str |-> s]

SeqsUpTo(S, n) == UNION {[1..k -> S] : k \in 0..n}

\* ------------------------------------------------------------ configuration
Agents == {"query-parser", "ingestion", "retrieval", "ranking", "generation", "validation"}

\* The endpoint directory built at import from the environment's defaults.
DefaultEndpoints ==
    [a \in Agents |->
        CASE a = "query-parser" -> "http://query-parser-agent:3002"
          [] a = "ingestion"    -> "http://ingestion-agent:3001"
          [] a = "retrieval"    -> "http://retrieval-agent:3003"
          [] a = "ranking"      -> "http://ranking-agent:3004"
          [] a = "generation"   -> "http://generation-agent:3005"
          [] a = "validation"   -> "http://validation-agent:3006"]

\* ------------------------------------------------------------------- state
VARIABLES
    app,                  \* what the import of app.py ended in
    workflows_import,     \* what `from workflows import ...` ended in
    AGENT_ENDPOINTS,      \* module global: agent name -> base URL
    WORKFLOWS_AVAILABLE,  \* module global: did `from workflows import ...` succeed
    pc,                   \* per thread: "idle", "query", "ingest", "batch", "done",
                          \* or "escaped" (left by a fault no except clause caught)
    handler,              \* per thread: which handler it runs ("none" while idle)
    request,              \* per thread: request.json of the request it serves
    trace_id,             \* per thread: the handler's local trace_id (a uuid4)
    context,              \* per thread: the handler's local WorkflowContext
    pstate,               \* per thread: PipelineState of its QueryWorkflow
    pos,                  \* per thread: index of the batch document being ingested
    results,              \* per thread: the batch handler's local `results`
    calls,                \* per thread, history: the agent calls made for it
    outcomes,             \* per thread, history: what those calls returned
    contexts,             \* per thread, history: WorkflowContext objects built
    loops,                \* per thread, history: event loops created and closed
    response,             \* per thread: (status, body) returned, once "done"
    overlap,              \* history: a thread resumed while another was waiting
    crew_import,          \* crew_config.py: where its try block stopped, if it did
    llm                   \* crew_config.py: module global llm, or the fault of its line

vars == <<app, workflows_import, AGENT_ENDPOINTS, WORKFLOWS_AVAILABLE, pc, handler, request, trace_id,
          context, pstate, pos, results, calls, outcomes, contexts, loops, response,
          overlap, crew_import, llm>>

NoRequest == [json |-> FALSE]
NoContext == [trace_id |-> <<>>, user_id |-> None]
NoResponse == [status |-> 0]
NoLoops == [created |-> 0, closed |-> 0]


Set(f, i, v) == [f EXCEPT ![i] = v]

\* crew_config.py, lines 9-32. The try block runs its three imports in order;
\* each `from m import a, b, ...` loads the module and then binds its names one
\* after another, left to right.
CrewImports == <<"crewai", "langchain.llms", "langchain.tools">>

ImportedNames(m) ==
    CASE m = "crewai"          -> <<"Agent", "Task", "Crew", "Process">>
      [] m = "langchain.llms"  -> <<"OpenAI">>
      [] m = "langchain.tools" -> <<"Tool">>

\* Where the try block stops: at import `module`, after `at` of its names were
\* bound, by an ImportError (the module is missing: at = 0; or its next name
\* is) or by another fault, raised by the module's own code (at = 0) or by its
\* lookup of the next name (a module-level __getattr__).
NoFailure == [module |-> "none", at |-> 0, fault |-> "none"]

ImportFaults == {"ImportError", "Fault"}

CrewFailures ==
    UNION {[module : {CrewImports[k]},
            at     : 0..(Len(ImportedNames(CrewImports[k])) - 1),
            fault  : ImportFaults] : k \in 1..Len(CrewImports)}

\* The first n names of a `from ... import` list.
Bound(names, n) == {names[j] : j \in 1..n}

\* except ImportError: the mock classes Agent and Task are bound (over the
\* imported ones, if any); another fault is not caught.
Mocks(failed) == IF failed.fault = "ImportError" THEN {"Agent", "Task"} ELSE {}

\* The names bound at module level from import k on, when the try block is left.
RECURSIVE BoundNames(_, _)
BoundNames(failed, k) ==
    IF k > Len(CrewImports) THEN {}
    ELSE IF CrewImports[k] = failed.module
    THEN Bound(ImportedNames(CrewImports[k]), failed.at) \cup Mocks(failed)
    ELSE Bound(ImportedNames(CrewImports[k]), Len(ImportedNames(CrewImports[k])))
         \cup BoundNames(failed, k + 1)

\* os.getenv(name, default) on a variable whose value is v (None: not set).
Getenv(v, default) == IF v = None THEN default ELSE v

\* The values OPENAI_TEMPERATURE is drawn from, and float() of a string: it
\* raises ValueError on a string that is not a number.
Temperatures == {None, "0.2", "", "hot"}
ParsesAsFloat(t) == t \in {"0.7", "0.2"}

\* What the call of langchain's OpenAI class ends in: an instance, or a fault
\* of its own validation (api_key is None when OPENAI_API_KEY is not set).
Constructions == {"OpenAI", "Raise"}

\* llm = OpenAI(model_name=..., temperature=float(...), api_key=...): the line is
\* not reached when an uncaught fault ended the import of crew_config.py; the
\* name OpenAI is looked up first, then the arguments are evaluated, then the
\* class is called.
InitializeLlm(failed, temperature, construction) ==
    IF failed.fault = "Fault" THEN "not run"
    ELSE IF "OpenAI" \notin BoundNames(failed, 1) THEN "NameError"
    ELSE IF ~ParsesAsFloat(Getenv(temperature, "0.7")) THEN "ValueError"
    ELSE construction

\* The text of app.py that is imported: the file as it is in the repository
\* (409 lines), or its lines 1-393. Lines 395-409 are the tail of another
\* version of the file, left after the `if __name__ == '__main__'` block.
Sources == {"app.py", "app.py:1-393"}

\* Compiling the module: line 395 is indented under nothing.
Compile(src) == IF src = "app.py" THEN "IndentationError" ELSE "ok"

\* What `from workflows import QueryWorkflow, IngestionWorkflow, WorkflowContext`
\* can end in: the names are bound, ImportError is raised (the module or a name
\* is missing), or the module's own code raises another fault.
WorkflowsImports == {"ok", "ImportError", "Fault"}

\* try: from workflows import ... except ImportError: only ImportError is
\* caught; any other fault ends the import of app.py.
ImportApp(src, w) ==
    IF Compile(src) /= "ok" THEN Compile(src)
    ELSE IF w = "Fault" THEN "Fault"
    ELSE "serving"

\* Requests are served by a process in which app.py was imported.
Serving == app = "serving"

\* app.py and its request threads at process start. Where the import did not
\* complete no handler exists and the globals are never read (FALSE stands for
\* the unbound WORKFLOWS_AVAILABLE).
InitApp ==
    /\ \E src \in Sources, w \in WorkflowsImports :
          /\ app = ImportApp(src, w)
          /\ workflows_import = IF Compile(src) = "ok" THEN w ELSE "not run"
          /\ WORKFLOWS_AVAILABLE = (app = "serving" /\ w = "ok")
    /\ AGENT_ENDPOINTS = DefaultEndpoints
    /\ pc = [i \in Invs |-> "idle"]
    /\ handler = [i \in Invs |-> "none"]
    /\ request = [i \in Invs |-> NoRequest]
    /\ trace_id = [i \in Invs |-> 0]
    /\ context = [i \in Invs |-> NoContext]
    /\ pstate = [i \in Invs |-> <<>>]
    /\ pos = [i \in Invs |-> 0]
    /\ results = [i \in Invs |-> <<>>]
    /\ calls = [i \in Invs |-> <<>>]
    /\ outcomes = [i \in Invs |-> <<>>]
    /\ contexts = [i \in Invs |-> 0]
    /\ loops = [i \in Invs |-> NoLoops]
    /\ response = [i \in Invs |-> NoResponse]
    /\ overlap = FALSE

\* Process start with CrewAI and LangChain installed, OPENAI_TEMPERATURE not
\* set and an OpenAI class that accepts its arguments.
Init ==
    /\ InitApp
    /\ crew_import = NoFailure
    /\ llm = InitializeLlm(NoFailure, None, "OpenAI")

\* Process start where any one of crew_config's imports may fail, in any
\* environment.
InitImport ==
    /\ InitApp
    /\ crew_import \in {NoFailure} \cup CrewFailures
    /\ \E t \in Temperatures, c \in Constructions :
          llm = InitializeLlm(crew_import, t, c)

\* ------------------------------------------- the workflows module (design)
\* Mutation of Stages: ranking is run before retrieval.
StagesReordered == <<"parse", "rank", "retrieve", "generate", "validate">>

\* QueryWorkflow's states, in order of execution (design 4.4; the tasks of
\* RAGTasks are defined in the same order).
Stages == <<"parse", "retrieve", "rank", "generate", "validate">>

\* The agent each stage is bound to, and the PipelineState key of its output.
StageAgent(s) ==
    CASE s = "parse"    -> "query-parser"
      [] s = "retrieve" -> "retrieval"
      [] s = "rank"     -> "ranking"
      [] s = "generate" -> "generation"
      [] s = "validate" -> "validation"
      [] s = "ingest"   -> "ingestion"

\* AgentClient's failure classification (design 4.2).
FailureKinds == {"Unreachable", "Timeout", "BadStatus", "MalformedResponse"}

\* StageResult: Ok(payload) or Failed(stageName, errorKind, message); a fault
\* that leaves workflow.execute is the third thing a call can end in: Raised is
\* a fault derived from Exception (RuntimeError, KeyError, asyncio.TimeoutError),
\* Escaped one derived from BaseException only (asyncio.CancelledError,
\* SystemExit).
Ok(p) == [tag |-> "Ok", payload |-> p]
Failed(k) == [tag |-> "Failed", kind |-> k]
Raised == [tag |-> "Raise"]
Escaped == [tag |-> "Escape"]
Fault(out) == out.tag \in {"Raise", "Escape"}

\* The validated payloads a stage can return (their content is the agents').
StagePayloads(s) ==
    CASE s = "parse"    -> {[intent |-> "define_concept"]}
      [] s = "retrieve" -> {[chunks |-> "retrieved"]}
      [] s = "rank"     -> {[chunks |-> "ranked"]}
      [] s = "generate" -> {[response |-> "answer"]}
      [] s = "validate" -> {[passed |-> TRUE], [passed |-> FALSE]}
      [] s = "ingest"   -> {[chunks |-> "plan"]}

StageOutcomes(s, kinds) ==
    {Ok(p) : p \in StagePayloads(s)} \cup {Failed(k) : k \in kinds} \cup {Raised, Escaped}

\* WorkflowContext(trace_id=..., user_id=..., metadata=...)
WorkflowContext(t, u) == [trace_id |-> t, user_id |-> u]

\* Transition rule: advance to the next state only when the stage returned Ok.
Advance(out) == out.tag = "Ok"

\* WorkflowResult of a failed stage: built from that single failure.
FailedResult(ctx, s, out) ==
    [success |-> FALSE,
     traceId |-> ctx.trace_id,
     error   |-> [code |-> <<s, out.kind>>, message |-> out.kind]]

\* Mutation of DoneResult: a report with passed = false makes the result a failure.
DoneIfPassed(ctx, ps) ==
    [success    |-> ps[5].passed,
     traceId    |-> ctx.trace_id,
     generation |-> ps[4],
     validation |-> ps[5]]

\* WorkflowResult of QueryWorkflow's Done state: the generation payload together
\* with the validation report, success whatever the report's `passed`.
DoneResult(ctx, ps) ==
    [success    |-> TRUE,
     traceId    |-> ctx.trace_id,
     generation |-> ps[4],
     validation |-> ps[5]]

\* WorkflowResult of IngestionWorkflow: the processing plan, or the failure.
IngestionResult(ctx, out) ==
    IF Advance(out)
    THEN [success |-> TRUE, traceId |-> ctx.trace_id, result |-> out.payload]
    ELSE FailedResult(ctx, "ingest", out)

\* ---------------------------------------------------------------- app.py
\* uuid.uuid4(): an identifier no other request of the process has.
Uuid4 == (1..NumInv) \ {trace_id[j] : j \in Invs}

\* One call of an agent: resolved through the endpoint directory handed to
\* workflow.execute(agent_endpoints=AGENT_ENDPOINTS), carrying the trace id.
Call(s, ctx, item) ==
    [agent |-> StageAgent(s), url |-> AGENT_ENDPOINTS[StageAgent(s)],
     trace |-> ctx.trace_id, item |-> item]

\* result.get('success') / r.get('success', False)
SuccessOf(r) == Get(r, "success", FALSE)

\* except Exception as e: ... 'INTERNAL_SERVER_ERROR', 500
InternalError ==
    [status |-> 500,
     body   |-> [success |-> FALSE,
                 error   |-> [code |-> "INTERNAL_SERVER_ERROR", message |-> "str(e)"]]]

\* the 400 of a request that fails the handler's validation
InvalidRequest(msg) ==
    [status |-> 400,
     body   |-> [success |-> FALSE,
                 error   |-> [code |-> "INVALID_REQUEST", message |-> msg]]]

\* Mutation of WorkflowResponse: the result is wrapped in a success envelope.
EnvelopeResponse(result) ==
    [status |-> 200, body |-> [success |-> TRUE, data |-> result]]

\* return jsonify(result), 200 if result.get('success') else 500
WorkflowResponse(result) ==
    [status |-> IF SuccessOf(result) THEN 200 ELSE 500, body |-> result]

\* context_data = data.get('context', {}). The 'context' of a request body is
\* encoded by its kind: "absent" (no such key: the default {} is taken), "dict"
\* (a JSON object, with or without the key 'userId') or "null" (null, or any
\* other value that is not an object).
NotADict(data) == data.context.kind = "null"

\* context_data.get('userId', 'anonymous'): the default is taken only when the
\* key is absent; a userId of null gives None.
UserId(data) == Get(data.context, "userId", "anonymous")

Return(i, resp) ==
    /\ pc' = Set(pc, i, "done")
    /\ response' = Set(response, i, resp)

\* except Exception as e: the faults the handler's except clause catches.
Caught(out) == out.tag = "Raise"

\* A fault leaves the handler's try block: a caught one is answered with the 500
\* of the except clause; any other propagates out of the handler, which returns
\* no (body, status).
Unwind(i, out) ==
    IF Caught(out)
    THEN Return(i, InternalError)
    ELSE /\ pc' = Set(pc, i, "escaped")
         /\ UNCHANGED response

\* Thread i resumes from its wait for an agent; the history notes whether
\* another thread is waiting for one at that moment.
Waiting(j) == pc[j] \in {"query", "ingest", "batch"}
Resume(i) == overlap' = (overlap \/ \E j \in Invs \ {i} : Waiting(j))

\* Mutation of CloseLoop: loop.close() is not reached.
LoopLeftOpen(i) == UNCHANGED loops

OpenLoop(i) == loops' = Set(loops, i, [loops[i] EXCEPT !.created = @ + 1])
CloseLoop(i) == loops' = Set(loops, i, [loops[i] EXCEPT !.closed = @ + 1])

\* POST /api/workflows/query, up to the first agent call (or the return).
execute_query_workflow(i, data) ==
    /\ Serving
    /\ pc[i] = "idle"
    /\ handler' = Set(handler, i, "query")
    /\ request' = Set(request, i, data)
    /\ IF ~data.json
       THEN \* data.get on no body raises; caught by `except Exception`
            /\ Return(i, InternalError)
            /\ UNCHANGED <<trace_id, context, contexts, loops, calls>>
       ELSE IF ~Truthy(data.query)
       THEN /\ Return(i, InvalidRequest("Query is required"))
            /\ UNCHANGED <<trace_id, context, contexts, loops, calls>>
       ELSE \E u \in Uuid4 :
            /\ trace_id' = Set(trace_id, i, u)
            /\ IF NotADict(data) \/ ~WORKFLOWS_AVAILABLE
               THEN \* context_data.get raises AttributeError on a context that
                    \* is no dict; WorkflowContext is an unbound name: NameError
                    /\ Return(i, InternalError)
                    /\ UNCHANGED <<context, contexts, loops, calls>>
               ELSE LET ctx == WorkflowContext(<<u>>, UserId(data)) IN
                    /\ context' = Set(context, i, ctx)
                    /\ contexts' = Set(contexts, i, contexts[i] + 1)
                    /\ OpenLoop(i)
                    /\ calls' = Set(calls, i, Append(calls[i], Call(Stages[1], ctx, 0)))
                    /\ pc' = Set(pc, i, "query")
                    /\ UNCHANGED response
    /\ UNCHANGED <<app, workflows_import, AGENT_ENDPOINTS, WORKFLOWS_AVAILABLE, crew_import, llm, pstate, pos, results, outcomes,
                   overlap>>

\* QueryWorkflow.execute resumes with the outcome of the stage in flight, runs
\* up to the next agent call or to its result; the handler then closes the loop
\* and returns.
query_stage_return(i, out) ==
    /\ pc[i] = "query"
    /\ LET k == Len(pstate[i]) + 1
           s == Stages[k]
       IN /\ out \in StageOutcomes(s, FailureKinds)
          /\ outcomes' = Set(outcomes, i, Append(outcomes[i], out))
          /\ IF Fault(out)
             THEN /\ CloseLoop(i)
                  /\ Unwind(i, out)
                  /\ UNCHANGED <<pstate, calls>>
             ELSE IF ~Advance(out)
             THEN /\ CloseLoop(i)
                  /\ Return(i, WorkflowResponse(FailedResult(context[i], s, out)))
                  /\ UNCHANGED <<pstate, calls>>
             ELSE LET ps == Append(pstate[i], out.payload) IN
                  /\ pstate' = Set(pstate, i, ps)
                  /\ IF k = Len(Stages)
                     THEN /\ CloseLoop(i)
                          /\ Return(i, WorkflowResponse(DoneResult(context[i], ps)))
                          /\ UNCHANGED calls
                     ELSE /\ calls' = Set(calls, i,
                                 Append(calls[i], Call(Stages[k + 1], context[i], 0)))
                          /\ UNCHANGED <<pc, response, loops>>
    /\ Resume(i)
    /\ UNCHANGED <<app, workflows_import, AGENT_ENDPOINTS, WORKFLOWS_AVAILABLE, crew_import, llm, handler, request, trace_id,
                   context, pos, results, contexts>>

\* POST /api/workflows/ingest, up to the agent call (or the return).
execute_ingest_workflow(i, data) ==
    /\ Serving
    /\ pc[i] = "idle"
    /\ handler' = Set(handler, i, "ingest")
    /\ request' = Set(request, i, data)
    /\ IF ~data.json
       THEN /\ Return(i, InternalError)
            /\ UNCHANGED <<trace_id, context, contexts, loops, calls>>
       ELSE IF ~Truthy(data.documentId) \/ ~Truthy(data.content)
       THEN /\ Return(i, InvalidRequest("documentId and content are required"))
            /\ UNCHANGED <<trace_id, context, contexts, loops, calls>>
       ELSE \E u \in Uuid4 :
            /\ trace_id' = Set(trace_id, i, u)
            /\ IF NotADict(data) \/ ~WORKFLOWS_AVAILABLE
               THEN /\ Return(i, InternalError)
                    /\ UNCHANGED <<context, contexts, loops, calls>>
               ELSE LET ctx == WorkflowContext(<<u>>, UserId(data)) IN
                    /\ context' = Set(context, i, ctx)
                    /\ contexts' = Set(contexts, i, contexts[i] + 1)
                    /\ OpenLoop(i)
                    /\ calls' = Set(calls, i, Append(calls[i], Call("ingest", ctx, 0)))
                    /\ pc' = Set(pc, i, "ingest")
                    /\ UNCHANGED response
    /\ UNCHANGED <<app, workflows_import, AGENT_ENDPOINTS, WORKFLOWS_AVAILABLE, crew_import, llm, pstate, pos, results, outcomes,
                   overlap>>

\* IngestionWorkflow.execute resumes with the outcome of its one stage; the
\* handler closes the loop and returns.
ingest_return(i, out) ==
    /\ pc[i] = "ingest"
    /\ out \in StageOutcomes("ingest", FailureKinds)
    /\ outcomes' = Set(outcomes, i, Append(outcomes[i], out))
    /\ CloseLoop(i)
    /\ IF Fault(out)
       THEN Unwind(i, out)
       ELSE Return(i, WorkflowResponse(IngestionResult(context[i], out)))
    /\ Resume(i)
    /\ UNCHANGED <<app, workflows_import, AGENT_ENDPOINTS, WORKFLOWS_AVAILABLE, crew_import, llm, handler, request, trace_id,
                   context, pstate, pos, results, calls, contexts>>

\* if not doc_id or not content
InvalidDoc(doc) == ~Truthy(doc.documentId) \/ ~Truthy(doc.content)

\* results.append({'documentId': doc_id, 'success': False, 'error': '...'})
InvalidItem(doc) ==
    [documentId |-> doc.documentId,
     success    |-> FALSE,
     error      |-> PyStr("Missing documentId or content")]

\* results.append({'documentId': doc_id, **result})
WorkflowItem(doc, result) == Merge([documentId |-> doc.documentId], result)

\* Mutation of Local: `results` is a module-level list, shared by all requests.
SharedLocal(i) == 1

\* results = []: the list is a local of the handler, one per request served.
Local(i) == i

\* Mutation of AppendItem: results.insert(0, ...).
PrependItem(res, item) == <<item>> \o res

\* results.append(...): where the item of a document goes in `results`.
AppendItem(res, item) == Append(res, item)

\* The `for doc in documents` loop from document k on, as far as it runs without
\* waiting: every invalid document gets its failed item and the loop continues;
\* it stops at the first valid document (pos = its index) or past the end.
RECURSIVE BatchLoop(_, _, _)
BatchLoop(docs, k, res) ==
    IF k > Len(docs)
    THEN [pos |-> k, results |-> res]
    ELSE IF InvalidDoc(docs[k])
    THEN BatchLoop(docs, k + 1, AppendItem(res, InvalidItem(docs[k])))
    ELSE [pos |-> k, results |-> res]

\* successful = sum(1 for r in results if r.get('success', False))
Successful(res) == Cardinality({n \in 1..Len(res) : SuccessOf(res[n])})

\* failed = len(documents) - successful
FailedCount(docs, res) == Len(docs) - Successful(res)

\* Mutation of BatchSuccess: 'success': successful > 0.
BatchSuccessAny(docs, res) == Successful(res) > 0

\* 'success': failed == 0
BatchSuccess(docs, res) == FailedCount(docs, res) = 0

\* return jsonify({'success': ..., 'summary': {...}, 'results': results}), 200
BatchResponse(docs, res) ==
    [status |-> 200,
     body   |-> [success |-> BatchSuccess(docs, res),
                 summary |-> [total      |-> Len(docs),
                              successful |-> Successful(res),
                              failed     |-> FailedCount(docs, res)],
                 results |-> res]]

\* The batch handler from the head of the loop at document k with `results` = res:
\* run the loop to its next wait, then either return the summary, or fail on the
\* unbound WorkflowContext, or start the ingestion workflow of document pos.
BatchContinue(i, t, k, res) ==
    LET docs == Get(request'[i], "documents", <<>>)
        at == BatchLoop(docs, k, res)
    IN  /\ pos' = Set(pos, i, at.pos)
        /\ results' = Set(results, Local(i), at.results)
        /\ IF at.pos > Len(docs)
           THEN /\ Return(i, BatchResponse(docs, at.results))
                /\ UNCHANGED <<context, contexts, calls>>
           ELSE IF ~WORKFLOWS_AVAILABLE
           THEN /\ Return(i, InternalError)
                /\ UNCHANGED <<context, contexts, calls>>
           ELSE LET ctx == WorkflowContext(<<t, docs[at.pos].documentId>>, "batch-ingest") IN
                /\ context' = Set(context, i, ctx)
                /\ contexts' = Set(contexts, i, contexts[i] + 1)
                /\ calls' = Set(calls, i, Append(calls[i], Call("ingest", ctx, at.pos)))
                /\ pc' = Set(pc, i, "batch")
                /\ UNCHANGED response

\* The event loop of that step: one is created exactly when a workflow starts.
BatchLoopOpened(i) ==
    IF pc'[i] = "batch" THEN loops[i].created + 1 ELSE loops[i].created

\* POST /api/workflows/batch-ingest, up to the first agent call (or the return).
execute_batch_ingest_workflow(i, data) ==
    /\ Serving
    /\ pc[i] = "idle"
    /\ handler' = Set(handler, i, "batch")
    /\ request' = Set(request, i, data)
    /\ IF ~data.json
       THEN /\ Return(i, InternalError)
            /\ UNCHANGED <<trace_id, context, contexts, loops, calls, pos, results>>
       ELSE IF Get(data, "documents", <<>>) = <<>>
       THEN /\ Return(i, InvalidRequest("documents array is required"))
            /\ UNCHANGED <<trace_id, context, contexts, loops, calls, pos, results>>
       ELSE \E u \in Uuid4 :
            /\ trace_id' = Set(trace_id, i, u)
            /\ BatchContinue(i, u, 1, <<>>)
            /\ loops' = Set(loops, i, [loops[i] EXCEPT !.created = BatchLoopOpened(i)])
    /\ UNCHANGED <<app, workflows_import, AGENT_ENDPOINTS, WORKFLOWS_AVAILABLE, crew_import, llm, pstate, outcomes, overlap>>

\* The ingestion workflow of document pos ends: its result is appended and the
\* loop closed, or its fault leaves the handler through `finally` and `except`;
\* the `for` loop then goes on to its next wait or to the summary.
batch_item_return(i, out) ==
    /\ pc[i] = "batch"
    /\ out \in StageOutcomes("ingest", FailureKinds)
    /\ outcomes' = Set(outcomes, i, Append(outcomes[i], out))
    /\ UNCHANGED request
    /\ IF Fault(out)
       THEN /\ Unwind(i, out)
            /\ loops' = Set(loops, i, [loops[i] EXCEPT !.closed = @ + 1])
            /\ UNCHANGED <<context, contexts, calls, pos, results>>
       ELSE LET doc == request[i].documents[pos[i]]
                item == WorkflowItem(doc, IngestionResult(context[i], out))
            IN  /\ BatchContinue(i, trace_id[i], pos[i] + 1, AppendItem(results[Local(i)], item))
                /\ loops' = Set(loops, i, [created |-> BatchLoopOpened(i),
                                           closed  |-> loops[i].closed + 1])
    /\ Resume(i)
    /\ UNCHANGED <<app, workflows_import, AGENT_ENDPOINTS, WORKFLOWS_AVAILABLE, crew_import, llm, handler, trace_id, pstate>>

\* ------------------------------------------------------------- the requests
Users == {None, "user123"}

Contexts ==
    {[kind |-> "absent"], [kind |-> "null"], [kind |-> "dict"]}
    \cup [kind : {"dict"}, userId : Users]

QueryData ==
    {NoRequest} \cup
    [json : {TRUE}, query : {None, "", "q"}, documentIds : {None, "ids"}, context : Contexts]

IngestData ==
    {NoRequest} \cup
    [json : {TRUE}, documentId : {None, "", "d1"}, content : {None, "", "c"}, context : Contexts]

Docs == [documentId : {None, "", "d1", "d2"}, content : {None, "", "c"}]

\* a body without 'documents', and the bodies with a list of at most n documents
BatchData(docs, n) ==
    {NoRequest, [json |-> TRUE]} \cup
    {[json |-> TRUE, documents |-> ds] : ds \in SeqsUpTo(docs, n)}

Outcomes(kinds) ==
    UNION {StageOutcomes(s, kinds) : s \in {Stages[k] : k \in 1..Len(Stages)} \cup {"ingest"}}

\* One request thread serving one request of any of the three kinds.
Serve(i, qdata, idata, bdata, outs) ==
    \/ \E data \in qdata : execute_query_workflow(i, data)
    \/ \E out \in outs : query_stage_return(i, out)
    \/ \E data \in idata : execute_ingest_workflow(i, data)
    \/ \E out \in outs : ingest_return(i, out)
    \/ \E data \in bdata : execute_batch_ingest_workflow(i, data)
    \/ \E out \in outs : batch_item_return(i, out)

\* One request at a time: thread 1 alone.
Next == Serve(1, QueryData, IngestData, BatchData(Docs, MaxDocs), Outcomes(FailureKinds))

Spec == Init /\ [][Next]_vars

\* Several request threads at once, each serving one request; a step is one
\* thread running to its next wait. The requests are drawn from smaller sets.
ConcQueryData ==
    {NoRequest} \cup [json : {TRUE}, query : {"", "q"}, documentIds : {None},
                        context : {[kind |-> "absent"]}]

ConcIngestData ==
    {NoRequest} \cup [json : {TRUE}, documentId : {None, "d1"}, content : {"c"},
                        context : {[kind |-> "absent"]}]

ConcDocs == [documentId : {None, "d1"}, content : {"c"}]

NextConc ==
    \E i \in Invs :
        Serve(i, ConcQueryData, ConcIngestData, BatchData(ConcDocs, MaxConcDocs),
              {out \in Outcomes({"Timeout"}) : ~Fault(out)})

SpecConc == Init /\ [][NextConc]_vars

\* One request at a time, in a process whose optional imports may have failed.
SpecImport == InitImport /\ [][Next]_vars

\* ---------------------------------------------------------------- claims
Done(i, h) == handler[i] = h /\ pc[i] = "done"

\* The handler of thread i has been left, with a response or by a fault.
Ended(i) == pc[i] \in {"done", "escaped"}

Last(q) == q[Len(q)]

Documents(i) == Get(request[i], "documents", <<>>)

ValidItems(docs) == {k \in 1..Len(docs) : ~InvalidDoc(docs[k])}

\* The ingestion workflows a batch thread has started, by document index.
Ingested(i) == {calls[i][n].item : n \in 1..Len(calls[i])}

\* A batch request that passes the handler's validation of the request.
BatchAccepted(i) == handler[i] = "batch" /\ request[i].json /\ Documents(i) /= <<>>

FixedOrder == <<"query-parser", "retrieval", "ranking", "generation", "validation">>

\* C1: a query workflow calls the agents in the order parse, retrieve, rank,
\* generate, validate, each at most once and none skipped; a stage is called
\* only after every earlier stage returned Ok, and none after a stage failed.
C1_StageOrder ==
    \A i \in Invs : handler[i] = "query" =>
        /\ Len(calls[i]) <= Len(FixedOrder)
        /\ \A n \in 1..Len(calls[i]) : calls[i][n].agent = FixedOrder[n]
        /\ Len(calls[i]) <= Len(outcomes[i]) + 1
        /\ \A n \in 1..Len(outcomes[i]) :
              n < Len(calls[i]) => outcomes[i][n].tag = "Ok"
        /\ \A n \in 1..Len(outcomes[i]) :
              outcomes[i][n].tag /= "Ok" => Len(calls[i]) = n

\* C1 witness: a query workflow failed at its third stage, after three calls.
C1_Witness ==
    \E i \in Invs :
        /\ Done(i, "query")
        /\ Len(calls[i]) = 3
        /\ Len(outcomes[i]) = 3
        /\ outcomes[i][3].tag = "Failed"

\* C2: in a batch, whatever each item's ingestion workflow ends in, every valid
\* item's workflow is attempted and the response holds a result for every item.
C2_BatchIsolation ==
    \A i \in Invs : (BatchAccepted(i) /\ Ended(i) /\ WORKFLOWS_AVAILABLE) =>
        /\ ValidItems(Documents(i)) \subseteq Ingested(i)
        /\ pc[i] = "done"
        /\ "results" \in DOMAIN response[i].body
        /\ Len(response[i].body.results) = Len(Documents(i))

\* C3: a batch summary of N documents, K of them invalid, has total = N,
\* successful + failed = total, failed >= K and N results, the k-th for the
\* k-th document.
C3_BatchSummary ==
    \A i \in Invs : (Done(i, "batch") /\ "summary" \in DOMAIN response[i].body) =>
        LET docs == Documents(i)
            body == response[i].body
            K == Len(docs) - Cardinality(ValidItems(docs))
        IN  /\ body.summary.total = Len(docs)
            /\ body.summary.successful + body.summary.failed = body.summary.total
            /\ body.summary.failed >= K
            /\ Len(body.results) = Len(docs)
            /\ \A k \in 1..Len(docs) : body.results[k].documentId = docs[k].documentId

\* C3 witness: a summary of two documents with different ids, the first invalid,
\* the second ingested.
C3_Witness ==
    \E i \in Invs :
        /\ Done(i, "batch")
        /\ "summary" \in DOMAIN response[i].body
        /\ Len(Documents(i)) = 2
        /\ InvalidDoc(Documents(i)[1])
        /\ Documents(i)[1].documentId /= Documents(i)[2].documentId
        /\ Ingested(i) = {2}

\* C4: over a whole batch run, the ingestion workflow is started once for each
\* valid document and never for an invalid one.
C4_OnlyValidIngested ==
    \A i \in Invs : (BatchAccepted(i) /\ Ended(i) /\ WORKFLOWS_AVAILABLE) =>
        /\ Len(calls[i]) = Cardinality(ValidItems(Documents(i)))
        /\ Ingested(i) = ValidItems(Documents(i))

\* The stage whose call ended last in thread i.
LastStage(i) == IF handler[i] = "query" THEN Stages[Len(outcomes[i])] ELSE "ingest"

\* C5: when a stage call of a query or ingestion workflow fails, the result is
\* success = false with an error naming that stage, the kind and a message, and
\* holds nothing else of the pipeline.
C5_StageFailure ==
    \A i \in Invs :
        (/\ handler[i] \in {"query", "ingest"}
         /\ pc[i] = "done"
         /\ outcomes[i] /= <<>>
         /\ Last(outcomes[i]).tag = "Failed") =>
            LET body == response[i].body IN
            /\ DOMAIN body = {"success", "traceId", "error"}
            /\ body.success = FALSE
            /\ DOMAIN body.error = {"code", "message"}
            /\ body.error.code = <<LastStage(i), Last(outcomes[i]).kind>>

\* C5 witness: the retrieval agent answered with a bad status.
C5_Witness ==
    \E i \in Invs :
        /\ Done(i, "query")
        /\ Len(outcomes[i]) = 2
        /\ outcomes[i][2] = Failed("BadStatus")
        /\ response[i].status = 500

\* The five stages of thread i's query workflow all returned Ok.
AllOk(i) ==
    /\ Len(outcomes[i]) = Len(Stages)
    /\ \A n \in 1..Len(outcomes[i]) : outcomes[i][n].tag = "Ok"

\* C6: when all five stages return Ok the result is success = true and carries
\* the generation payload and the validation report, whatever `passed` is.
C6_ValidationIsData ==
    \A i \in Invs : (Done(i, "query") /\ AllOk(i)) =>
        LET body == response[i].body IN
        /\ {"success", "generation", "validation"} \subseteq DOMAIN body
        /\ body.success = TRUE
        /\ body.generation = outcomes[i][4].payload
        /\ body.validation = outcomes[i][5].payload

\* C6 witness: all five stages returned Ok and the report says passed = false.
C6_Witness ==
    \E i \in Invs :
        /\ Done(i, "query")
        /\ AllOk(i)
        /\ outcomes[i][5].payload.passed = FALSE

\* An error object with a machine-readable code and a human-readable message.
StructuredError(d) ==
    /\ "error" \in DOMAIN d
    /\ {"code", "message"} \subseteq DOMAIN d.error

\* C7: every failure of a query, ingestion or batch request (a 400, a 500, and
\* each failed item of a batch result) carries an error object with a code and
\* a message, and no fault leaves a handler without a response.
C7_StructuredErrors ==
    \A i \in Invs : Ended(i) =>
        LET body == response[i].body IN
        /\ pc[i] = "done"
        /\ response[i].status /= 200 => StructuredError(body)
        /\ "results" \in DOMAIN body =>
              \A k \in 1..Len(body.results) :
                  ~SuccessOf(body.results[k]) => StructuredError(body.results[k])

\* The request of thread i lacks a required input.
MissingInput(i) ==
    \/ ~request[i].json
    \/ handler[i] = "query" /\ ~Truthy(request[i].query)
    \/ handler[i] = "ingest" /\ (~Truthy(request[i].documentId) \/ ~Truthy(request[i].content))
    \/ handler[i] = "batch" /\ Documents(i) = <<>>

\* C8: a request that lacks a required input is rejected as INVALID_REQUEST
\* before any workflow context is built and before any agent is called.
C8_InvalidRequest ==
    \A i \in Invs : (pc[i] = "done" /\ MissingInput(i)) =>
        /\ response[i].status = 400
        /\ response[i].body.error.code = "INVALID_REQUEST"
        /\ contexts[i] = 0
        /\ calls[i] = <<>>

\* C9: a batch response says success = true exactly when it holds, for every
\* input document, a result whose success is true.
C9_BatchSuccess ==
    \A i \in Invs : BatchAccepted(i) /\ pc[i] = "done" =>
        LET body == response[i].body IN
        body.success = TRUE <=>
            /\ "results" \in DOMAIN body
            /\ Len(body.results) = Len(Documents(i))
            /\ \A k \in 1..Len(body.results) : SuccessOf(body.results[k]) = TRUE

\* C9 witness: a batch of two valid documents, the first ingested, the second
\* failed by a timeout, reported as success = false.
C9_Witness ==
    \E i \in Invs :
        /\ Done(i, "batch")
        /\ Len(Documents(i)) = 2
        /\ Len(outcomes[i]) = 2
        /\ outcomes[i][1].tag = "Ok"
        /\ outcomes[i][2] = Failed("Timeout")
        /\ response[i].body.success = FALSE
        /\ response[i].body.summary.successful = 1

\* What a request returns when it is served alone: the handler run from its
\* first line to its return, on the request data, the uuid4 it drew and the
\* outcomes of the agent calls made for it, in the order they ended.
StageNames == <<"parse", "retrieve", "rank", "generate", "validate">>

RECURSIVE QueryAlone(_, _, _, _)
QueryAlone(ctx, outs, k, ps) ==
    IF outs[k].tag = "Raise" THEN InternalError
    ELSE IF outs[k].tag = "Failed"
    THEN [status |-> 500,
          body   |-> [success |-> FALSE, traceId |-> ctx.trace_id,
                      error   |-> [code |-> <<StageNames[k], outs[k].kind>>,
                                   message |-> outs[k].kind]]]
    ELSE IF k = 5
    THEN [status |-> 200,
          body   |-> [success |-> TRUE, traceId |-> ctx.trace_id,
                      generation |-> ps[4], validation |-> outs[5].payload]]
    ELSE QueryAlone(ctx, outs, k + 1, Append(ps, outs[k].payload))

IngestAlone(trace, out) ==
    IF out.tag = "Ok"
    THEN [success |-> TRUE, traceId |-> trace, result |-> out.payload]
    ELSE [success |-> FALSE, traceId |-> trace,
          error   |-> [code |-> <<"ingest", out.kind>>, message |-> out.kind]]

RECURSIVE BatchAlone(_, _, _, _, _, _)
BatchAlone(docs, u, outs, k, n, res) ==
    IF k > Len(docs)
    THEN LET ok == Cardinality({m \in 1..Len(res) : res[m].success}) IN
         [status |-> 200,
          body   |-> [success |-> (ok = Len(docs)),
                      summary |-> [total |-> Len(docs), successful |-> ok,
                                   failed |-> Len(docs) - ok],
                      results |-> res]]
    ELSE IF docs[k].documentId \in {None, ""} \/ docs[k].content \in {None, ""}
    THEN BatchAlone(docs, u, outs, k + 1, n,
                    Append(res, [documentId |-> docs[k].documentId, success |-> FALSE,
                                 error |-> PyStr("Missing documentId or content")]))
    ELSE IF ~WORKFLOWS_AVAILABLE \/ outs[n].tag = "Raise"
    THEN InternalError
    ELSE BatchAlone(docs, u, outs, k + 1, n + 1,
                    Append(res, [documentId |-> docs[k].documentId]
                                 @@ IngestAlone(<<u, docs[k].documentId>>, outs[n])))

Rejected(msg) ==
    [status |-> 400,
     body   |-> [success |-> FALSE, error |-> [code |-> "INVALID_REQUEST", message |-> msg]]]

Alone(h, data, u, outs) ==
    IF ~data.json THEN InternalError
    ELSE IF h = "query"
    THEN IF data.query \in {None, ""} THEN Rejected("Query is required")
         ELSE IF data.context.kind = "null" \/ ~WORKFLOWS_AVAILABLE THEN InternalError
         ELSE QueryAlone([trace_id |-> <<u>>], outs, 1, <<>>)
    ELSE IF h = "ingest"
    THEN IF data.documentId \in {None, ""} \/ data.content \in {None, ""}
         THEN Rejected("documentId and content are required")
         ELSE IF data.context.kind = "null" \/ ~WORKFLOWS_AVAILABLE THEN InternalError
         ELSE IF outs[1].tag = "Raise" THEN InternalError
         ELSE LET r == IngestAlone(<<u>>, outs[1]) IN
              [status |-> IF r.success THEN 200 ELSE 500, body |-> r]
    ELSE IF "documents" \notin DOMAIN data \/ Len(data.documents) = 0
         THEN Rejected("documents array is required")
         ELSE BatchAlone(data.documents, u, outs, 1, 1, <<>>)

\* C10: under any interleaving of requests, a request's agent calls carry its
\* own context and trace id, the endpoint directory is what it was at process
\* start, and the response of every request is the one it gets when served alone.
C10_Isolation ==
    /\ AGENT_ENDPOINTS = DefaultEndpoints
    /\ \A i \in Invs :
          /\ \A n \in 1..Len(calls[i]) :
                /\ calls[i][n].trace = context[i].trace_id
                    \/ (handler[i] = "batch" /\ calls[i][n].item < pos[i])
                /\ calls[i][n].trace[1] = trace_id[i]
                /\ calls[i][n].url = DefaultEndpoints[calls[i][n].agent]
          /\ pc[i] = "done" =>
                response[i] = Alone(handler[i], request[i], trace_id[i], outcomes[i])

\* C10 witness: requests were served at once (a thread resumed while another
\* was waiting for an agent); a batch has returned its summary and a query,
\* which has had answers from two agents, is still waiting for one.
C10_Witness ==
    \E i, j \in Invs :
        /\ i /= j
        /\ overlap
        /\ Done(i, "batch")
        /\ Len(outcomes[i]) >= 1
        /\ "summary" \in DOMAIN response[i].body
        /\ pc[j] = "query"
        /\ Len(outcomes[j]) >= 2

\* C11: on each workflow endpoint the status follows the outcome: a body with
\* success = true goes out with 200, a rejected request (INVALID_REQUEST) with
\* 400, and every other body with success = false with 500.
C11_StatusMapping ==
    \A i \in Invs : pc[i] = "done" =>
        LET body == response[i].body
            rejected == StructuredError(body) /\ body.error.code = "INVALID_REQUEST"
        IN  /\ SuccessOf(body) => response[i].status = 200
            /\ rejected => response[i].status = 400
            /\ (~SuccessOf(body) /\ ~rejected) => response[i].status = 500

\* A well-formed response body: a success flag, and an error object when the
\* flag is false and the body is not a batch summary.
WellFormed(body) ==
    /\ "success" \in DOMAIN body
    /\ body.success \/ "summary" \in DOMAIN body \/ StructuredError(body)

\* C12: when an optional import fails (workflows for app.py, CrewAI/LangChain
\* for crew_config.py) initialization still completes on the fallback
\* definitions, every request then ends in a well-formed structured response,
\* and a batch request still gets a result for each of its documents. For
\* crew_config.py: a failed import neither stops the module inside its try block
\* nor leaves `llm = OpenAI(...)` without the name it needs (a fault of that line
\* that the environment causes without any failed import is not the claim's).
C12_GracefulDegradation ==
    /\ crew_import /= NoFailure => llm \notin {"not run", "NameError"}
    /\ workflows_import \in {"ImportError", "Fault"} => Serving
    /\ ~WORKFLOWS_AVAILABLE =>
          \A i \in Invs : Ended(i) =>
              /\ pc[i] = "done"
              /\ response[i].status /= 0
              /\ WellFormed(response[i].body)
              /\ BatchAccepted(i) =>
                    /\ "results" \in DOMAIN response[i].body
                    /\ Len(response[i].body.results) = Len(Documents(i))

\* Event loops of thread i created and not yet closed.
OpenLoops(i) == loops[i].created - loops[i].closed

\* Agent calls of thread i that have not ended.
InFlight(i) == Len(calls[i]) - Len(outcomes[i])

\* C13: a handler has at most one event loop open at a time, open exactly while
\* it waits for its workflow, and none once it has returned, also when
\* workflow.execute raised; a batch has at most one ingestion workflow in
\* flight and starts the workflow of a document only after those of the
\* documents before it have ended.
C13_EventLoops ==
    \A i \in Invs :
        /\ OpenLoops(i) \in {0, 1}
        /\ OpenLoops(i) = 1 <=> Waiting(i)
        /\ Ended(i) => OpenLoops(i) = 0
        /\ InFlight(i) \in {0, 1}
        /\ InFlight(i) = OpenLoops(i)
        /\ handler[i] = "batch" =>
              /\ loops[i].created = Len(calls[i])
              /\ \A n \in 1..Len(calls[i]) :
                    \A k \in 1..Len(calls[i]) : n < k => calls[i][n].item < calls[i][k].item

\* C13 witness: a batch whose second ingestion workflow raised has returned,
\* with both of its event loops closed.
C13_Witness ==
    \E i \in Invs :
        /\ Done(i, "batch")
        /\ Len(outcomes[i]) = 2
        /\ outcomes[i][2].tag = "Raise"
        /\ loops[i] = [created |-> 2, closed |-> 2]

====
